---------------------------- MODULE Spec2Model ----------------------------
(***************************************************************************)
(* Model of the SME loan pricing backend (src/backend/main.py).            *)
(*                                                                         *)
(* Number representation.  The program computes in binary floating point;  *)
(* the model computes the same formulas exactly, in fixed point:           *)
(*   - rates (annual, as fractions) are integers in units of 1e-9 (nano);  *)
(*   - probabilities of default are integers in units of 1e-7;             *)
(*   - classifier outputs (pd_raw) are integers in units of 1e-4;          *)
(*   - money amounts are integers in units of NT$ 0.5, so that a positive  *)
(*     amount below NT$ 1 exists (the code guards divisors by max(x, 1));  *)
(*   - a quotient of two amounts (DBR, collateral coverage) is a fraction  *)
(*     [n, d] in lowest terms, compared by cross-multiplication.           *)
(* The input sets are chosen so that every quotient taken is exact.        *)
(* Display strings (the *_pct fields, the formatted actual/required of a   *)
(* rule failure, colours, messages) are not part of the model; Chinese     *)
(* labels are rendered by ASCII names.                                     *)
(***************************************************************************)
EXTENDS Integers, Sequences, FiniteSets, TLC

VARIABLES
    model_file,     \* what MODEL_PATH holds on disk when the process starts
    BASE_RATE,      \* the BASE_RATE environment variable of the process
    started,        \* the startup event has run
    MODEL,          \* global MODEL           (main.py:57)
    SCALER,         \* global SCALER          (main.py:58)
    FEATURE_NAMES,  \* global FEATURE_NAMES   (main.py:59)
    request,        \* the application of the latest POST /predict
    response,       \* what that request returned (or the exception it raised)
    calls,          \* the functions that request invoked, in order
    seen,           \* an earlier (request, response) pair, kept for comparison
    args,           \* arguments of a direct call of one function
    ret,            \* what that call returned
    prev            \* the (args, ret) of the call before it

vars == <<model_file, BASE_RATE, started, MODEL, SCALER, FEATURE_NAMES,
          request, response, calls, seen, args, ret, prev>>

processVars == <<model_file, BASE_RATE, started, MODEL, SCALER, FEATURE_NAMES>>
requestVars == <<request, response, calls, seen>>
callVars    == <<args, ret, prev>>

\* Python's None.  Every value that may be None is a record, so that the two
\* compare.
None == [none |-> TRUE]

\* ------------------------------------------------------------------------
\* Arithmetic helpers
\* ------------------------------------------------------------------------
Min(a, b) == IF b < a THEN b ELSE a
Max(a, b) == IF b > a THEN b ELSE a

RECURSIVE GCD(_, _)
GCD(a, b) == IF b = 0 THEN a ELSE GCD(b, a % b)

\* a / b for amounts a >= 0, b > 0: the fraction in lowest terms.
Div(a, b) == LET g == GCD(a, b) IN [n |-> a \div g, d |-> b \div g]

\* f <= p/q and f >= p/q for a fraction f.
FracLeq(f, p, q) == f.n * q <= p * f.d
FracGeq(f, p, q) == f.n * q >= p * f.d

\* NT$ x in amount units (NT$ 0.5).
NTD(x) == 2 * x

\* Python's round(): to the nearest multiple of unit, ties to even.
RoundTo(x, unit) ==
    LET q == x \div unit
        r == x % unit
    IN  IF 2 * r < unit THEN q * unit
        ELSE IF 2 * r > unit THEN (q + 1) * unit
        ELSE IF q % 2 = 0 THEN q * unit ELSE (q + 1) * unit

Abs(x) == IF x < 0 THEN -x ELSE x

\* ------------------------------------------------------------------------
\* SECTION 2 - TaiwanMarketBenchmark
\* ------------------------------------------------------------------------
TAIWAN_REDISCOUNT_RATE == 18750000

\* The BASE_RATE environment variable: unset, a decimal string (given by
\* its value in nano units), or a string float() cannot parse.
Unset == [kind |-> "unset"]
Malformed == [kind |-> "malformed"]
Override(v) == [kind |-> "value", value |-> v]
LowBaseRate == 5 * 1000 * 1000
BaseRateSettings == {Unset, Override(LowBaseRate), Malformed}

\* TaiwanMarketBenchmark.__init__: float(os.getenv("BASE_RATE", default)).
\* float() raises ValueError on a malformed setting.
TaiwanMarketBenchmark(setting) ==
    IF setting = Unset
    THEN [raised |-> FALSE, base_rate |-> TAIWAN_REDISCOUNT_RATE + 1250000]
    ELSE IF setting = Malformed
    THEN [raised |-> TRUE, base_rate |-> 0]
    ELSE [raised |-> FALSE, base_rate |-> setting.value]

credit_score_tiers ==
    << [min |-> 750, max |-> 850, premium |-> 0,        label |-> "prime"],
       [min |-> 700, max |-> 749, premium |-> 5000000,  label |-> "good"],
       [min |-> 650, max |-> 699, premium |-> 15000000, label |-> "fair"],
       [min |-> 600, max |-> 649, premium |-> 30000000, label |-> "average"],
       [min |-> 550, max |-> 599, premium |-> 50000000, label |-> "weak"],
       [min |-> 300, max |-> 549, premium |-> 80000000, label |-> "low"] >>

dbr_surcharge_tiers ==
    << [max_n |-> 1, max_d |-> 2, surcharge |-> 0],
       [max_n |-> 1, max_d |-> 1, surcharge |-> 5000000],
       [max_n |-> 2, max_d |-> 1, surcharge |-> 15000000],
       [max_n |-> 3, max_d |-> 1, surcharge |-> 30000000],
       [max_n |-> 5, max_d |-> 1, surcharge |-> 50000000] >>

\* The first tier whose range holds the score; (0.080, "low") when none does.
get_credit_score_premium(credit_score) ==
    LET hits == {i \in DOMAIN credit_score_tiers :
                    /\ credit_score_tiers[i].min <= credit_score
                    /\ credit_score <= credit_score_tiers[i].max}
    IN  IF hits = {} THEN [premium |-> 80000000, label |-> "low"]
        ELSE LET i == CHOOSE j \in hits : \A k \in hits : j <= k
             IN  [premium |-> credit_score_tiers[i].premium,
                  label |-> credit_score_tiers[i].label]

\* The first tier whose bound is >= dbr; 0.050 above the last bound.
get_dbr_surcharge(dbr) ==
    LET hits == {i \in DOMAIN dbr_surcharge_tiers :
                    FracLeq(dbr, dbr_surcharge_tiers[i].max_n,
                                 dbr_surcharge_tiers[i].max_d)}
    IN  IF hits = {} THEN 50000000
        ELSE dbr_surcharge_tiers[CHOOSE j \in hits : \A k \in hits : j <= k].surcharge

\* ------------------------------------------------------------------------
\* SECTION 3 - RiskBasedPricingLayer
\* ------------------------------------------------------------------------
industry_premium ==
    [manufacturing |-> 0, technology |-> 0, services |-> 2500000,
     retail_trade |-> 3000000, construction |-> 4000000,
     agriculture |-> 4500000, other |-> 3000000]

maturity_premium_per_year == 1500000
size_discount_per_10m == 800000
max_size_discount == 10000000
competitive_discount == -5000000
relationship_discount == -3000000
credit_guarantee_discount == -2500000
min_rate == 25000000
max_rate == 120000000
funding_cost == 10000000
target_spread == 15000000
ml_adj_limit == 5000000

\* lgd = 0.40 * (1 - min(collateral_coverage * 0.4, 0.4)), in hundredths.
\* coverage * 0.4 reaches 0.4 exactly when coverage >= 1.
lgd(collateral_coverage) ==
    IF FracGeq(collateral_coverage, 1, 1) THEN 40 - 16
    ELSE 40 - (16 * collateral_coverage.n) \div collateral_coverage.d

\* expected_loss = pd_score * lgd: (1e-7) * (1e-2) = nano.
expected_loss(pd_score, collateral_coverage) == pd_score * lgd(collateral_coverage)

\* maturity_premium = 0.0015 * (tenor_months / 12).
maturity_premium(tenor_months) == (maturity_premium_per_year * tenor_months) \div 12

\* size_discount = max(-0.0008 * (loan / 10,000,000), -0.0100);
\* 0.0008 per NT$ 10M is 1 nano per 25 amount units.
size_discount(loan_amount_ntd) ==
    Max(-(loan_amount_ntd \div (NTD(10000000) \div size_discount_per_10m)),
        -max_size_discount)

\* ml_adj = max(-0.005, min(ml_adjustment, 0.005)).
ClampMlNoLimit(ml_adjustment) == ml_adjustment
ClampMl(ml_adjustment) == Max(-ml_adj_limit, Min(ml_adjustment, ml_adj_limit))

\* final_rate = max(min_rate, min(total, max_rate)).
ClampRateNoFloor(total) == Min(total, max_rate)
ClampRate(total) == Max(min_rate, Min(total, max_rate))

ComponentNames ==
    << "base_rate", "credit_premium", "dbr_surcharge", "expected_loss",
       "funding_cost", "target_spread", "maturity_premium", "size_discount",
       "sector_premium", "competitive_discount", "relationship_discount",
       "guarantee_discount", "ml_adjustment" >>

\* The 13 components of calculate, in the order of the returned dict.
Components(base, a) ==
    << [name |-> "base_rate",             rate |-> base],
       [name |-> "credit_premium",
        rate |-> get_credit_score_premium(a.credit_score).premium],
       [name |-> "dbr_surcharge",         rate |-> get_dbr_surcharge(a.dbr)],
       [name |-> "expected_loss",
        rate |-> expected_loss(a.pd_score, a.collateral_coverage)],
       [name |-> "funding_cost",          rate |-> funding_cost],
       [name |-> "target_spread",         rate |-> target_spread],
       [name |-> "maturity_premium",      rate |-> maturity_premium(a.tenor_months)],
       [name |-> "size_discount",         rate |-> size_discount(a.loan_amount_ntd)],
       [name |-> "sector_premium",
        rate |-> IF a.industry \in DOMAIN industry_premium
                 THEN industry_premium[a.industry] ELSE 3000000],
       [name |-> "competitive_discount",  rate |-> competitive_discount],
       [name |-> "relationship_discount",
        rate |-> IF a.is_existing_customer THEN relationship_discount ELSE 0],
       [name |-> "guarantee_discount",
        rate |-> IF a.has_credit_guarantee THEN credit_guarantee_discount ELSE 0],
       [name |-> "ml_adjustment",         rate |-> ClampMl(a.ml_adjustment)] >>

RECURSIVE SumRates(_)
SumRates(s) == IF s = <<>> THEN 0 ELSE s[1].rate + SumRates(Tail(s))

\* total = base + credit_premium + ... + ml_adj (main.py:356-361).
TotalDropsMl(components) == SumRates(SubSeq(components, 1, 12))
Total(components) == SumRates(components)

\* RiskBasedPricingLayer.calculate, for a pricer whose market.base_rate is base.
calculate(base, a) ==
    LET components == Components(base, a)
        total == Total(components)
    IN  [final_rate |-> ClampRate(total),
         components |-> components,
         credit_label |-> get_credit_score_premium(a.credit_score).label,
         raw_total_before_cap |-> total]

\* ------------------------------------------------------------------------
\* SECTION 4 - risk grades, rule gate
\* ------------------------------------------------------------------------
\* RISK_GRADES[g].pd_max (1e-7) and .market_rate (nano), g = 1..8.
RISK_GRADES ==
    << [name |-> "excellent",   pd_max |-> 50000,    market_rate |-> 28000000],
       [name |-> "good",        pd_max |-> 100000,   market_rate |-> 35000000],
       [name |-> "fair",        pd_max |-> 250000,   market_rate |-> 45000000],
       [name |-> "average",     pd_max |-> 500000,   market_rate |-> 58000000],
       [name |-> "watch",       pd_max |-> 1000000,  market_rate |-> 72000000],
       [name |-> "substandard", pd_max |-> 2000000,  market_rate |-> 90000000],
       [name |-> "doubtful",    pd_max |-> 5000000,  market_rate |-> 110000000],
       [name |-> "loss",        pd_max |-> 10000000, market_rate |-> 120000000] >>

APPROVAL_MATRIX ==
    << [decision |-> "approve",             authority |-> "branch_manager"],
       [decision |-> "approve",             authority |-> "branch_manager"],
       [decision |-> "approve",             authority |-> "regional_head"],
       [decision |-> "conditional_approve", authority |-> "regional_head"],
       [decision |-> "conditional_approve", authority |-> "head_office"],
       [decision |-> "careful_review",      authority |-> "head_office"],
       [decision |-> "not_recommended",     authority |-> "head_office"],
       [decision |-> "reject",              authority |-> "N/A"] >>

\* for grade, info in RISK_GRADES.items(): if pd_score < info["pd_max"]:
\* return grade; return 8.  The loop, from grade g on.
RECURSIVE GradeFromInclusive(_, _)
GradeFromInclusive(pd_score, g) ==
    IF g > Len(RISK_GRADES) THEN 8
    ELSE IF pd_score <= RISK_GRADES[g].pd_max THEN g
    ELSE GradeFromInclusive(pd_score, g + 1)

RECURSIVE GradeFrom(_, _)
GradeFrom(pd_score, g) ==
    IF g > Len(RISK_GRADES) THEN 8
    ELSE IF pd_score < RISK_GRADES[g].pd_max THEN g
    ELSE GradeFrom(pd_score, g + 1)

classify_risk_grade(pd_score) == GradeFrom(pd_score, 1)

\* The five rules of check_rule_gate, each with whether app_data passes it.
Rules(app_data) ==
    << [rule |-> "min_annual_revenue_1000000",
        passed |-> app_data.annual_revenue_ntd >= NTD(1000000)],
       [rule |-> "min_credit_score_400",
        passed |-> app_data.credit_score >= 400],
       [rule |-> "min_years_in_business_1",
        passed |-> app_data.years_in_business >= 1],
       [rule |-> "max_dbr_500pct",
        passed |-> FracLeq(app_data.dbr, 5, 1)],
       [rule |-> "min_collateral_coverage_50pct",
        passed |-> FracGeq(app_data.collateral_coverage, 1, 2)] >>

\* for name, passed, actual, required in rules: if not passed: failed.append
RECURSIVE FailedFromShortCircuit(_)
FailedFromShortCircuit(rules) ==
    IF rules = <<>> THEN <<>>
    ELSE IF ~rules[1].passed THEN <<[rule |-> rules[1].rule]>>
    ELSE FailedFromShortCircuit(Tail(rules))

RECURSIVE FailedFrom(_)
FailedFrom(rules) ==
    IF rules = <<>> THEN <<>>
    ELSE (IF ~rules[1].passed THEN <<[rule |-> rules[1].rule]>> ELSE <<>>)
         \o FailedFrom(Tail(rules))

\* check_rule_gate: (len(failed) == 0, failed).
check_rule_gate(app_data) ==
    LET failed == FailedFrom(Rules(app_data))
    IN  [eligible |-> Len(failed) = 0, failed |-> failed]

\* ------------------------------------------------------------------------
\* SECTION 5 - predict_pd_from_model
\* ------------------------------------------------------------------------
\* The scorer bundle is external code (scikit-learn objects unpickled from
\* model.pkl).  A classifier is a deterministic function of the feature
\* vector that returns a probability in [0, 1] (units of 1e-4) or raises; a
\* scaler transforms the vector or raises, and raises on a vector whose
\* width is not the width it was fitted on.
FEATURE_LIST ==
    << "annual_revenue_ntd", "revenue_per_employee", "years_in_business",
       "num_employees", "business_growth_proxy", "credit_score",
       "owner_experience_years", "business_sector_risk", "loan_amount_ntd",
       "debt_to_revenue_ratio", "collateral_coverage", "tenor_months",
       "existing_debt_proxy" >>
ShortFeatureList == << "credit_score", "tenor_months" >>

Classifiers == {"zero", "one", "by_score", "raises"}
Scalers == {"standard", "raises"}
Models == {[classifier |-> c] : c \in Classifiers}
ScalerObjects == {[scaler |-> k] : k \in Scalers}
FeatureLists == {[names |-> FEATURE_LIST], [names |-> ShortFeatureList]}

\* features.get(name, default)
Get(features, name, default) ==
    IF name \in DOMAIN features THEN features[name] ELSE default

\* row = {name: features.get(name, 0.0) for name in FEATURE_NAMES};
\* X = pd.DataFrame([row])[FEATURE_NAMES].fillna(0)
FeatureVector(features, names) ==
    [i \in 1..Len(names) |-> Get(features, names[i], 0)]

\* SCALER.transform(X)
transform(scaler, X) ==
    [raised |-> scaler.scaler = "raises" \/ Len(X) # Len(FEATURE_LIST),
     X |-> X]

\* float(MODEL.predict_proba(X_scaled)[:, 1][0])
predict_proba(model, X) ==
    [raised |-> model.classifier = "raises",
     pd_raw |-> IF model.classifier = "one" THEN 10000
                ELSE IF model.classifier = "by_score"
                THEN Max(0, Min(10000, (850 - X[6]) * 20))
                ELSE 0]

\* max(0.001, min(0.5, (800 - cs) / 800 * 0.15)), cs defaulting to 600.
simple_pd_Unclamped(features) ==
    (800 - Get(features, "credit_score", 600)) * 1875
simple_pd(features) ==
    Max(10000, Min(5000000, (800 - Get(features, "credit_score", 600)) * 1875))

\* The formula path: (pd_score, 0.0, False).
Fallback(features) ==
    [raised |-> FALSE, pd_score |-> simple_pd(features),
     ml_adjustment |-> 0, used_model |-> FALSE]

\* pd_calibrated = max(0.0001, min(pd_raw * (0.02 / 0.16), 0.9999))
Calibrate_NoFloor(pd_raw) == Min(pd_raw * 125, 9999000)
Calibrate_NoRescale(pd_raw) == Max(1000, Min(pd_raw * 1000, 9999000))
Calibrate(pd_raw) == Max(1000, Min(pd_raw * 125, 9999000))

\* The body of the try block (main.py:482-498); raised when the scaler or
\* the classifier raises.
Scoring(features, model, scaler, feature_names) ==
    LET X == FeatureVector(features, feature_names.names)
        scaled == transform(scaler, X)
        proba == IF scaled.raised THEN [raised |-> TRUE, pd_raw |-> 0]
                 ELSE predict_proba(model, scaled.X)
        pd_calibrated == Calibrate(proba.pd_raw)
    IN  [raised |-> proba.raised,
         pd_score |-> IF proba.raised THEN 0 ELSE pd_calibrated,
         ml_adjustment |-> IF proba.raised THEN 0
                           ELSE (pd_calibrated - simple_pd(features)) * 10,
         used_model |-> ~proba.raised]

\* try: ... except Exception: the formula path.
TryNoExcept(scored, features) == scored
TryExcept(scored, features) == IF scored.raised THEN Fallback(features) ELSE scored

predict_pd_from_model(features, model, scaler, feature_names) ==
    IF model = None \/ scaler = None \/ feature_names = None
    THEN Fallback(features)
    ELSE TryExcept(Scoring(features, model, scaler, feature_names), features)

\* ------------------------------------------------------------------------
\* calculate_monthly_payment
\* ------------------------------------------------------------------------
\* The annuity formula is computed in fixed point with 8 decimals (floor at
\* every step); payments are in NT$ 0.01.
FixK == 10 * 1000
FixOne == FixK * FixK

\* floor(a * b / FixOne) for 0 <= a, b, without overflow of the product.
MulFix(a, b) ==
    LET ah == a \div FixK
        al == a % FixK
        bh == b \div FixK
        bl == b % FixK
    IN  (ah * bh) + (((ah * bl) + (al * bh) + ((al * bl) \div FixK)) \div FixK)

\* [q, r] with a * b = q * c + r, 0 <= r < c, for 0 <= a, b and 0 < c.
RECURSIVE MulDivRem(_, _, _)
MulDivRem(a, b, c) ==
    IF b = 0 THEN [q |-> 0, r |-> 0]
    ELSE LET h == MulDivRem(a, b \div 2, c)
             q2 == (2 * h.q) + ((2 * h.r) \div c)
             r2 == (2 * h.r) % c
             ar == a % c
         IN  IF b % 2 = 0 THEN [q |-> q2, r |-> r2]
             ELSE [q |-> q2 + (a \div c) + ((r2 + ar) \div c),
                   r |-> (r2 + ar) % c]

\* floor(a * b / c)
MulDiv(a, b, c) == MulDivRem(a, b, c).q

\* x ** n in fixed point.
RECURSIVE PowFix(_, _)
PowFix(x, n) ==
    IF n = 0 THEN FixOne
    ELSE LET h == PowFix(x, n \div 2)
             sq == MulFix(h, h)
         IN  IF n % 2 = 0 THEN sq ELSE MulFix(sq, x)

\* Interest on the whole principal every month, and no repayment of it.
calculate_monthly_payment_InterestOnly(loan_amount, annual_rate, tenor_months) ==
    MulDiv(loan_amount, annual_rate \div 120, FixOne \div 50)

\* calculate_monthly_payment(loan_amount, annual_rate, tenor_months), in
\* NT$ 0.01: loan / tenor at a zero rate, else
\* loan * m * (1 + m)^n / ((1 + m)^n - 1) with m = annual_rate / 12.
calculate_monthly_payment(loan_amount, annual_rate, tenor_months) ==
    LET monthly_rate == annual_rate \div 120
    IN  IF monthly_rate = 0 THEN MulDiv(loan_amount, 50, tenor_months)
        ELSE LET f == PowFix(FixOne + monthly_rate, tenor_months)
                 factor == MulDiv(monthly_rate, f, f - FixOne)
             IN  MulDiv(loan_amount, factor, FixOne \div 50)

\* ------------------------------------------------------------------------
\* SECTION 1 / SECTION 6 - POST /predict
\* ------------------------------------------------------------------------
\* The Field constraints of LoanApplication; a request that breaks one is
\* answered 422 by the framework and never reaches the handler.
Sectors == {"manufacturing", "retail_trade", "services", "agriculture",
            "construction", "technology", "other"}

Validated(application) ==
    /\ application.annual_revenue_ntd > 0
    /\ application.years_in_business \in 1..100
    /\ application.num_employees \in 1..10000
    /\ application.business_sector \in Sectors
    /\ application.credit_score \in 300..850
    /\ application.loan_amount_ntd > 0
    /\ application.loan_amount_ntd <= NTD(50000000)
    /\ application.tenor_months \in 6..84
    /\ application.collateral_value_ntd >= 0

\* dbr = loan_amount_ntd / max(annual_revenue_ntd, 1)
Dbr(application) ==
    Div(application.loan_amount_ntd, Max(application.annual_revenue_ntd, NTD(1)))

\* collateral_coverage = collateral_value_ntd / max(loan_amount_ntd, 1)
CollateralCoverage(application) ==
    Div(application.collateral_value_ntd, Max(application.loan_amount_ntd, NTD(1)))

AppData(application) ==
    [annual_revenue_ntd |-> application.annual_revenue_ntd,
     credit_score |-> application.credit_score,
     years_in_business |-> application.years_in_business,
     dbr |-> Dbr(application),
     collateral_coverage |-> CollateralCoverage(application)]

\* The response of a rejected application (main.py:553-574).
Rejected(failed_rules) ==
    [raised |-> FALSE,
     final_rate |-> 0, pd_score |-> 0,
     risk_grade |-> 8, risk_grade_name |-> "loss",
     components |-> <<>>,
     monthly_payment |-> 0, total_payment |-> 0, total_interest |-> 0,
     approval_decision |-> "reject", approval_authority |-> "N/A",
     market_benchmark_rate |-> 0, rate_vs_market |-> 0,
     is_eligible |-> FALSE, failed_rules |-> failed_rules,
     ml_model_used |-> FALSE]

sector_risk ==
    [manufacturing |-> 15, retail_trade |-> 20, services |-> 25,
     agriculture |-> 30, construction |-> 28, technology |-> 22, other |-> 25]

\* ml_features (main.py:577-593); ratios as fractions, risks in hundredths.
MlFeatures(application) ==
    [annual_revenue_ntd |-> application.annual_revenue_ntd,
     revenue_per_employee |->
        Div(application.annual_revenue_ntd, Max(application.num_employees, 1)),
     years_in_business |-> application.years_in_business,
     num_employees |-> application.num_employees,
     business_growth_proxy |-> Dbr(application),
     credit_score |-> application.credit_score,
     owner_experience_years |-> application.years_in_business,
     business_sector_risk |->
        IF application.business_sector \in DOMAIN sector_risk
        THEN sector_risk[application.business_sector] ELSE 25,
     loan_amount_ntd |-> application.loan_amount_ntd,
     debt_to_revenue_ratio |-> Dbr(application),
     collateral_coverage |-> CollateralCoverage(application),
     tenor_months |-> application.tenor_months,
     existing_debt_proxy |-> 8]

\* An exception left the handler: the framework answers 500.
Raised == [raised |-> TRUE]

\* The response of a priced application (main.py:612-656).  Rates are
\* rounded to 6 decimals, amounts to whole NT$.
Priced(application, pd, pricing) ==
    LET final_rate == pricing.final_rate
        risk_grade == classify_risk_grade(pd.pd_score)
        monthly_payment == calculate_monthly_payment(
            application.loan_amount_ntd, final_rate, application.tenor_months)
        \* total_payment in NT$ 0.1
        total_payment == MulDiv(monthly_payment, application.tenor_months, 10)
        total_interest == total_payment - 5 * application.loan_amount_ntd
        market_rate == RISK_GRADES[risk_grade].market_rate
    IN  [raised |-> FALSE,
         final_rate |-> RoundTo(final_rate, 1000),
         pd_score |-> RoundTo(pd.pd_score, 10),
         risk_grade |-> risk_grade,
         risk_grade_name |-> RISK_GRADES[risk_grade].name,
         components |-> pricing.components,
         monthly_payment |-> RoundTo(monthly_payment, 100) \div 100,
         total_payment |-> RoundTo(total_payment, 10) \div 10,
         total_interest |-> RoundTo(total_interest, 10) \div 10,
         approval_decision |-> APPROVAL_MATRIX[risk_grade].decision,
         approval_authority |-> APPROVAL_MATRIX[risk_grade].authority,
         market_benchmark_rate |-> market_rate,
         rate_vs_market |-> RoundTo(final_rate - market_rate, 1000),
         is_eligible |-> TRUE, failed_rules |-> <<>>,
         ml_model_used |-> pd.used_model]

\* The eligible branch (main.py:576-656).
PricedOutcome(application, model, scaler, feature_names, setting) ==
    LET pd == predict_pd_from_model(MlFeatures(application),
                                    model, scaler, feature_names)
        market == TaiwanMarketBenchmark(setting)
        pricing == calculate(market.base_rate,
                       [pd_score |-> pd.pd_score,
                        credit_score |-> application.credit_score,
                        dbr |-> Dbr(application),
                        loan_amount_ntd |-> application.loan_amount_ntd,
                        tenor_months |-> application.tenor_months,
                        industry |-> application.business_sector,
                        collateral_coverage |-> CollateralCoverage(application),
                        is_existing_customer |-> application.is_existing_customer,
                        has_credit_guarantee |-> application.has_credit_guarantee,
                        ml_adjustment |-> pd.ml_adjustment])
    IN  IF pd.raised
        THEN [response |-> Raised,
              calls |-> <<"check_rule_gate", "predict_pd_from_model">>]
        ELSE IF market.raised
        THEN [response |-> Raised,
              calls |-> <<"check_rule_gate", "predict_pd_from_model",
                          "RiskBasedPricingLayer">>]
        ELSE [response |-> Priced(application, pd, pricing),
              calls |-> <<"check_rule_gate", "predict_pd_from_model",
                          "RiskBasedPricingLayer", "calculate",
                          "classify_risk_grade", "calculate_monthly_payment">>]

\* The decision on the gate's verdict: if not is_eligible: return ...
IgnoresGate(gate) == FALSE
ReturnsEarly(gate) == ~gate.eligible

\* predict_interest_rate: the handler of POST /predict, start to end.
predict_interest_rate(application, model, scaler, feature_names, setting) ==
    LET gate == check_rule_gate(AppData(application))
    IN  IF ReturnsEarly(gate)
        THEN [response |-> Rejected(gate.failed), calls |-> <<"check_rule_gate">>]
        ELSE PricedOutcome(application, model, scaler, feature_names, setting)

\* The handler and the functions it calls declare the scorer globals but
\* assign none of them: they are after a request what they were before it.
GlobalsConsumed(model, scaler, feature_names) == <<None, scaler, feature_names>>
GlobalsAfterRequest(model, scaler, feature_names) == <<model, scaler, feature_names>>

\* ------------------------------------------------------------------------
\* load_model, at the startup event
\* ------------------------------------------------------------------------
Absent == [kind |-> "absent"]
Corrupt == [kind |-> "corrupt"]
Bundle(m, sc, fn) ==
    [kind |-> "bundle", model |-> m, scaler |-> sc, feature_names |-> fn]

\* load_model: a missing file or a failing pickle.load leaves the globals
\* None; otherwise each global is bundle.get(key).
load_model(file) ==
    IF file.kind = "bundle" THEN <<file.model, file.scaler, file.feature_names>>
    ELSE <<None, None, None>>

\* ------------------------------------------------------------------------
\* Direct calls of RiskBasedPricingLayer.calculate
\* ------------------------------------------------------------------------
MlSteps == 3
MlStep == ml_adj_limit \div 2

PdScores == {0, 225000, 10000000}
CreditScores == {300, 750, 900}
Dbrs == {Div(1, 2), Div(3, 1), Div(6, 1)}
LoanAmounts == {NTD(2000000), NTD(200000000)}
Tenors == {6, 84}
Industries == {"manufacturing", "agriculture", "unknown"}
Coverages == {Div(0, 1), Div(3, 4), Div(5, 4)}
MlAdjustments == {k * MlStep : k \in (-MlSteps)..MlSteps}

CalcInputs ==
    [pd_score : PdScores, credit_score : CreditScores, dbr : Dbrs,
     loan_amount_ntd : LoanAmounts, tenor_months : Tenors,
     industry : Industries, collateral_coverage : Coverages,
     is_existing_customer : BOOLEAN, has_credit_guarantee : BOOLEAN,
     ml_adjustment : MlAdjustments]

\* No process is serving: the globals are as at import, no request was made.
NoProcess ==
    /\ model_file = None /\ started = FALSE
    /\ MODEL = None /\ SCALER = None /\ FEATURE_NAMES = None
NoRequest ==
    /\ request = None /\ response = None /\ calls = <<>> /\ seen = None

InitCalculate ==
    /\ NoProcess /\ NoRequest
    /\ BASE_RATE \in {Unset, Override(LowBaseRate)}
    /\ args \in CalcInputs
    /\ ret = None
    /\ prev = None

\* pricer = RiskBasedPricingLayer(); pricer.calculate(**args)
CallCalculate ==
    /\ ret = None
    /\ ret' = calculate(TaiwanMarketBenchmark(BASE_RATE).base_rate, args)
    /\ UNCHANGED <<processVars, requestVars, args, prev>>

\* The same call again, with another ml_adjustment only.
CallCalculateAgain(ml) ==
    /\ ret # None /\ prev = None
    /\ prev' = [args |-> args, ret |-> ret]
    /\ args' = [args EXCEPT !.ml_adjustment = ml]
    /\ ret' = calculate(TaiwanMarketBenchmark(BASE_RATE).base_rate, args')
    /\ UNCHANGED <<processVars, requestVars>>

NextCalculate ==
    \/ CallCalculate
    \/ \E ml \in MlAdjustments : CallCalculateAgain(ml)

SpecCalculate == InitCalculate /\ [][NextCalculate]_vars

\* C1: for every input of calculate, final_rate lies in [0.025, 0.120]; it
\* is the unclipped total when that is in the range, 0.025 when the total is
\* below it and 0.120 when the total is above it.
C1_FinalRateClamped ==
    ret # None =>
        /\ 25000000 <= ret.final_rate /\ ret.final_rate <= 120000000
        /\ (25000000 <= ret.raw_total_before_cap
            /\ ret.raw_total_before_cap <= 120000000)
              => ret.final_rate = ret.raw_total_before_cap
        /\ ret.raw_total_before_cap < 25000000 => ret.final_rate = 25000000
        /\ ret.raw_total_before_cap > 120000000 => ret.final_rate = 120000000

\* A call whose total fell below the floor, so that the floor decided it.
C1_Witness ==
    /\ ret # None
    /\ ret.raw_total_before_cap < 25000000
    /\ ret.final_rate = 25000000

\* C2: calculate returns exactly the 13 named components in the fixed order,
\* and their sum is raw_total_before_cap, also when final_rate was clipped.
C2_ComponentsSumToTotal ==
    ret # None =>
        /\ Len(ret.components) = 13
        /\ [i \in 1..13 |-> ret.components[i].name] =
             << "base_rate", "credit_premium", "dbr_surcharge", "expected_loss",
                "funding_cost", "target_spread", "maturity_premium",
                "size_discount", "sector_premium", "competitive_discount",
                "relationship_discount", "guarantee_discount", "ml_adjustment" >>
        /\ SumRates(ret.components) = ret.raw_total_before_cap

\* A clipped result whose ML component is not zero.
C2_Witness ==
    /\ ret # None
    /\ ret.final_rate # ret.raw_total_before_cap
    /\ ret.components[13].rate # 0
    /\ ret.components[4].rate # 0

\* C3: the ML component that enters the total and is reported lies in
\* [-0.005, 0.005]: the supplied value when inside, the nearer bound
\* otherwise; two calls differing only in ml_adjustment have unclipped totals
\* at most 0.010 apart.
C3_MlAdjustmentClamped ==
    ret # None =>
        /\ LET ml == ret.components[13].rate
               given == args.ml_adjustment
           IN  /\ -5000000 <= ml /\ ml <= 5000000
               /\ (-5000000 <= given /\ given <= 5000000) => ml = given
               /\ given < -5000000 => ml = -5000000
               /\ given > 5000000 => ml = 5000000
               /\ ret.raw_total_before_cap =
                    SumRates(SubSeq(ret.components, 1, 12)) + ml
        /\ prev # None =>
             Abs(ret.raw_total_before_cap - prev.ret.raw_total_before_cap)
                <= 10000000

\* Two calls, one with an adjustment below -0.005 and one above +0.005.
C3_Witness ==
    /\ ret # None /\ prev # None
    /\ prev.args.ml_adjustment < -5000000
    /\ args.ml_adjustment > 5000000
    /\ ret.raw_total_before_cap - prev.ret.raw_total_before_cap = 10000000


\* ------------------------------------------------------------------------
\* Direct calls of classify_risk_grade
\* ------------------------------------------------------------------------
PdGridN == 44
PdGridStep == RISK_GRADES[3].pd_max
GradePds ==
    {k * PdGridStep : k \in 0..PdGridN}
    \cup {RISK_GRADES[g].pd_max + e : g \in 1..8, e \in {-1, 0, 1}}

InitGrade ==
    /\ NoProcess /\ NoRequest
    /\ BASE_RATE = Unset
    /\ args \in [pd_score : GradePds]
    /\ ret = None
    /\ prev = None

CallClassify ==
    /\ ret = None
    /\ ret' = [grade |-> classify_risk_grade(args.pd_score)]
    /\ UNCHANGED <<processVars, requestVars, args, prev>>

NextGrade == CallClassify

SpecGrade == InitGrade /\ [][NextGrade]_vars

\* C4: classify_risk_grade partitions PD: for pd in [0,1) it returns the
\* lowest grade whose pd_max (0.005, 0.010, 0.025, 0.050, 0.100, 0.200,
\* 0.500, 1.000) is strictly greater than pd, so a pd equal to a bound goes
\* to the next grade up; for pd >= 1.0 it returns grade 8.
C4_GradeBounds ==
    << 50000, 100000, 250000, 500000, 1000000, 2000000, 5000000, 10000000 >>

C4_GradePartition ==
    ret # None =>
        /\ ret.grade \in 1..8
        /\ args.pd_score >= 10000000 => ret.grade = 8
        /\ args.pd_score < 10000000 =>
             /\ args.pd_score < C4_GradeBounds[ret.grade]
             /\ \A h \in 1..(ret.grade - 1) : args.pd_score >= C4_GradeBounds[h]

\* A pd equal to the bound of grade 3 was graded 4.
C4_Witness ==
    /\ ret # None
    /\ args.pd_score = 250000
    /\ ret.grade = 4

\* ------------------------------------------------------------------------
\* Direct calls of check_rule_gate
\* ------------------------------------------------------------------------
GateRevenues == {NTD(500000), NTD(1000000) - 1, NTD(1000000), NTD(5000000)}
GateScores == {399, 400, 680}
GateYears == {0, 1, 5}
GateDbrs == {Div(2, 5), Div(5, 1), Div(501, 100)}
GateCoverages == {Div(49, 100), Div(1, 2), Div(5, 4)}

InitGate ==
    /\ NoProcess /\ NoRequest
    /\ BASE_RATE = Unset
    /\ args \in [annual_revenue_ntd : GateRevenues, credit_score : GateScores,
                 years_in_business : GateYears, dbr : GateDbrs,
                 collateral_coverage : GateCoverages]
    /\ ret = None
    /\ prev = None

CallGate ==
    /\ ret = None
    /\ ret' = check_rule_gate(args)
    /\ UNCHANGED <<processVars, requestVars, args, prev>>

NextGate == CallGate

SpecGate == InitGate /\ [][NextGate]_vars

\* C5: check_rule_gate evaluates all five thresholds without short-circuit:
\* the failure list holds one entry per violated rule and none for a
\* satisfied one (revenue >= 1,000,000; credit score >= 400; years >= 1;
\* DBR <= 5.0; coverage >= 0.5, bounds inclusive), in the fixed rule order;
\* eligible iff the list is empty; an input at all five boundaries is
\* eligible and one violating only the revenue rule has exactly one failure.
C5_Violated(a) ==
    (IF a.annual_revenue_ntd < 2000000
     THEN <<"min_annual_revenue_1000000">> ELSE <<>>)
    \o (IF a.credit_score < 400 THEN <<"min_credit_score_400">> ELSE <<>>)
    \o (IF a.years_in_business < 1 THEN <<"min_years_in_business_1">> ELSE <<>>)
    \o (IF a.dbr.n > 5 * a.dbr.d THEN <<"max_dbr_500pct">> ELSE <<>>)
    \o (IF 2 * a.collateral_coverage.n < a.collateral_coverage.d
        THEN <<"min_collateral_coverage_50pct">> ELSE <<>>)

C5_AtBoundaries ==
    [annual_revenue_ntd |-> 2000000, credit_score |-> 400,
     years_in_business |-> 1, dbr |-> [n |-> 5, d |-> 1],
     collateral_coverage |-> [n |-> 1, d |-> 2]]

C5_RuleGateComplete ==
    ret # None =>
        /\ [i \in 1..Len(ret.failed) |-> ret.failed[i].rule] = C5_Violated(args)
        /\ ret.eligible <=> (ret.failed = <<>>)
        /\ args = C5_AtBoundaries => ret.eligible
        /\ args = [C5_AtBoundaries EXCEPT !.annual_revenue_ntd = 1000000] =>
             /\ ~ret.eligible
             /\ ret.failed = <<[rule |-> "min_annual_revenue_1000000"]>>

\* All five rules were violated and all five were reported.
C5_Witness ==
    /\ ret # None
    /\ Len(ret.failed) = 5
    /\ ~ret.eligible


\* ------------------------------------------------------------------------
\* Direct calls of predict_pd_from_model
\* ------------------------------------------------------------------------
PdScoresIn == {300, 400, 680, 799, 850}
\* The features of the pipeline (all 13 keys), and a dict without a score.
PdFeatures ==
    {[name \in {FEATURE_LIST[i] : i \in 1..Len(FEATURE_LIST)} |->
        IF name = "credit_score" THEN cs ELSE 1] : cs \in PdScoresIn}
    \cup {[name \in {"tenor_months"} |-> 36]}

InitPd ==
    /\ NoRequest
    /\ BASE_RATE = Unset
    /\ model_file = None
    /\ started = TRUE
    /\ MODEL \in {None} \cup Models
    /\ SCALER \in {None} \cup ScalerObjects
    /\ FEATURE_NAMES \in {None} \cup FeatureLists
    /\ args \in PdFeatures
    /\ ret = None
    /\ prev = None

CallPredictPd ==
    /\ ret = None
    /\ ret' = predict_pd_from_model(args, MODEL, SCALER, FEATURE_NAMES)
    /\ UNCHANGED <<processVars, requestVars, args, prev>>

NextPd == CallPredictPd

SpecPd == InitPd /\ [][NextPd]_vars

\* C6: predict_pd_from_model never raises to its caller; when MODEL, SCALER
\* or FEATURE_NAMES is absent, or the scaler or classifier raises during
\* scoring, it returns scored = false, adjustment = 0.0 and
\* pd = clamp((800 - credit_score) / 800 * 0.15, 0.001, 0.5); scored = true
\* only when all three are present and scoring completed.
C6_Absent == MODEL = None \/ SCALER = None \/ FEATURE_NAMES = None

C6_ScoringRaises ==
    /\ ~C6_Absent
    /\ \/ SCALER.scaler = "raises"
       \/ Len(FEATURE_NAMES.names) # 13
       \/ MODEL.classifier = "raises"

C6_FallbackPd ==
    LET cs == IF "credit_score" \in DOMAIN args THEN args.credit_score ELSE 600
        x == (800 - cs) * 1875
    IN  IF x < 10000 THEN 10000 ELSE IF x > 5000000 THEN 5000000 ELSE x

C6_PdNeverRaises ==
    ret # None =>
        /\ ~ret.raised
        /\ (C6_Absent \/ C6_ScoringRaises) =>
             /\ ret.used_model = FALSE
             /\ ret.ml_adjustment = 0
             /\ ret.pd_score = C6_FallbackPd
        /\ ret.used_model => (~C6_Absent /\ ~C6_ScoringRaises)

\* A complete bundle whose classifier raised: the formula path was returned.
C6_Witness ==
    /\ ret # None
    /\ ~C6_Absent
    /\ MODEL.classifier = "raises" /\ SCALER.scaler = "standard"
    /\ FEATURE_NAMES.names = FEATURE_LIST
    /\ ret.used_model = FALSE
    /\ ret.pd_score = 225000


\* ------------------------------------------------------------------------
\* The serving process: startup, then any number of POST /predict
\* ------------------------------------------------------------------------
\* The end-to-end example: credit score 680, revenue 5,000,000, loan
\* 2,000,000, 36 months, manufacturing, collateral 2,500,000.
Example ==
    [annual_revenue_ntd |-> NTD(5000000), years_in_business |-> 5,
     num_employees |-> 20, business_sector |-> "manufacturing",
     credit_score |-> 680, loan_amount_ntd |-> NTD(2000000),
     tenor_months |-> 36, collateral_value_ntd |-> NTD(2500000),
     is_existing_customer |-> FALSE, has_credit_guarantee |-> FALSE]

\* At every threshold of the rule gate.
AtThresholds ==
    [Example EXCEPT !.annual_revenue_ntd = NTD(1000000), !.credit_score = 400,
                    !.years_in_business = 1, !.loan_amount_ntd = NTD(5000000),
                    !.tenor_months = 84, !.business_sector = "agriculture"]

Applications ==
    {[Example EXCEPT !.credit_score = cs, !.loan_amount_ntd = loan] :
        cs \in {400, 679, 680, 800}, loan \in {NTD(2000000), NTD(5000000)}}
    \cup {AtThresholds,
          [Example EXCEPT !.credit_score = 800, !.tenor_months = 6,
                          !.is_existing_customer = TRUE,
                          !.has_credit_guarantee = TRUE],
          [Example EXCEPT !.collateral_value_ntd = NTD(1500000),
                          !.is_existing_customer = TRUE],
          [Example EXCEPT !.annual_revenue_ntd = NTD(500000)],
          [Example EXCEPT !.annual_revenue_ntd = 1, !.loan_amount_ntd = NTD(3),
                          !.collateral_value_ntd = NTD(3)],
          [Example EXCEPT !.credit_score = 300],
          [Example EXCEPT !.collateral_value_ntd = 0],
          [Example EXCEPT !.annual_revenue_ntd = NTD(500000), !.credit_score = 300,
                          !.loan_amount_ntd = NTD(50000000),
                          !.collateral_value_ntd = 0]}

ModelFiles ==
    {Absent, Corrupt,
     Bundle([classifier |-> "by_score"], [scaler |-> "standard"], [names |-> FEATURE_LIST]),
     Bundle([classifier |-> "raises"], [scaler |-> "standard"], [names |-> FEATURE_LIST]),
     Bundle([classifier |-> "one"], None, [names |-> FEATURE_LIST])}

Init ==
    /\ model_file \in ModelFiles
    /\ BASE_RATE \in BaseRateSettings
    /\ started = FALSE
    /\ MODEL = None /\ SCALER = None /\ FEATURE_NAMES = None
    /\ request = None /\ response = None /\ calls = <<>> /\ seen = None
    /\ args = None /\ ret = None /\ prev = None

\* startup_event: load_model().
Startup ==
    /\ ~started
    /\ started' = TRUE
    /\ LET loaded == load_model(model_file)
       IN  /\ MODEL' = loaded[1]
           /\ SCALER' = loaded[2]
           /\ FEATURE_NAMES' = loaded[3]
    /\ UNCHANGED <<model_file, BASE_RATE, requestVars, callVars>>

\* One POST /predict, handled start to end (the handler awaits nothing).
\* The pair (request, response) it replaces is either remembered in seen
\* or becomes an evaluation between the remembered one and this one.
Predict(application, remember) ==
    /\ started
    /\ LET out == predict_interest_rate(application, MODEL, SCALER,
                                        FEATURE_NAMES, BASE_RATE)
       IN  /\ request' = application
           /\ response' = out.response
           /\ calls' = out.calls
    /\ LET after == GlobalsAfterRequest(MODEL, SCALER, FEATURE_NAMES)
       IN  /\ MODEL' = after[1]
           /\ SCALER' = after[2]
           /\ FEATURE_NAMES' = after[3]
    /\ seen' = IF remember /\ response # None
               THEN [request |-> request, response |-> response, between |-> FALSE]
               ELSE IF seen # None THEN [seen EXCEPT !.between = TRUE]
               ELSE seen
    /\ UNCHANGED <<model_file, BASE_RATE, started, callVars>>

Next ==
    \/ Startup
    \/ \E application \in Applications, remember \in BOOLEAN :
          Predict(application, remember)

Spec == Init /\ [][Next]_vars

\* Every application offered passes the framework's validation.
ApplicationsValidated == \A a \in Applications : Validated(a)


\* The rules the gate finds violated for the latest request, on the DBR and
\* the coverage the handler derived for it.
GateViolations == C5_Violated(AppData(request))

Returned == response # None /\ ~response.raised

\* C7: the rule gate runs before PD estimation and pricing, and the two
\* outcomes are exclusive: on any gate failure the result is returned at once
\* with is_eligible = false, the gate's failure list, no components, zeroed
\* rate/PD/payment figures and ml_model_used = false, and neither
\* predict_pd_from_model nor calculate is invoked; otherwise the result has
\* is_eligible = true and no failed rules.  is_eligible is true exactly when
\* failed_rules is empty.
C7_GateFirstExclusive ==
    response # None =>
        /\ calls # <<>> /\ calls[1] = "check_rule_gate"
        /\ GateViolations # <<>> =>
             /\ ~response.raised
             /\ response.is_eligible = FALSE
             /\ [i \in 1..Len(response.failed_rules) |->
                    response.failed_rules[i].rule] = GateViolations
             /\ response.components = <<>>
             /\ response.final_rate = 0 /\ response.pd_score = 0
             /\ response.monthly_payment = 0 /\ response.total_payment = 0
             /\ response.total_interest = 0
             /\ response.ml_model_used = FALSE
             /\ \A i \in DOMAIN calls :
                   calls[i] \notin {"predict_pd_from_model", "calculate"}
        /\ (GateViolations = <<>> /\ ~response.raised) =>
             /\ response.is_eligible = TRUE
             /\ response.failed_rules = <<>>
             /\ \E i, j \in DOMAIN calls :
                   /\ 1 < i /\ i < j
                   /\ calls[i] = "predict_pd_from_model"
                   /\ calls[j] = "calculate"
        /\ ~response.raised =>
             (response.is_eligible <=> response.failed_rules = <<>>)

\* A rejected application with several failures, returned after the gate alone.
C7_Witness ==
    /\ Returned
    /\ ~response.is_eligible
    /\ Len(response.failed_rules) >= 2
    /\ calls = <<"check_rule_gate">>
    /\ MODEL # None

\* C8: the pipeline is deterministic and leaves process state unchanged: two
\* evaluations with identical inputs return identical results, whatever was
\* evaluated between them, and no evaluation modifies MODEL, SCALER or
\* FEATURE_NAMES (they stay what load_model set at startup).
C8_Deterministic ==
    /\ (seen # None /\ response # None /\ seen.request = request)
          => seen.response = response
    /\ started =>
          <<MODEL, SCALER, FEATURE_NAMES>> = load_model(model_file)

\* The same scored, eligible application evaluated twice, another between.
C8_Witness ==
    /\ seen # None /\ Returned
    /\ seen.between
    /\ seen.request = request
    /\ seen.response = response
    /\ response.is_eligible
    /\ response.ml_model_used

\* C9 (as stated): with no scorer configured, every eligible application
\* yields ml_model_used = false, an ML component of 0, a PD equal to the
\* fallback formula of its credit score and the risk grade of that PD; the
\* example application is eligible with PD 0.0225, grade 3 and a final rate
\* in [0.025, 0.120].
C9_NoScorer == started /\ (MODEL = None \/ SCALER = None \/ FEATURE_NAMES = None)

C9_FallbackPd ==
    LET x == (800 - request.credit_score) * 1875
    IN  IF x < 10000 THEN 10000 ELSE IF x > 5000000 THEN 5000000 ELSE x

C9_GradeOfFallbackPd ==
    /\ response.risk_grade \in 1..8
    /\ C9_FallbackPd < C4_GradeBounds[response.risk_grade]
    /\ \A h \in 1..(response.risk_grade - 1) : C9_FallbackPd >= C4_GradeBounds[h]

C9_ExampleResult ==
    request = Example =>
        /\ response.is_eligible
        /\ response.pd_score = 225000
        /\ response.risk_grade = 3
        /\ 25000000 <= response.final_rate /\ response.final_rate <= 120000000

C9_Original ==
    (C9_NoScorer /\ Returned /\ GateViolations = <<>>) =>
        /\ response.is_eligible
        /\ response.ml_model_used = FALSE
        /\ response.components[13].rate = 0
        /\ response.pd_score = C9_FallbackPd
        /\ C9_GradeOfFallbackPd
        /\ C9_ExampleResult

\* C9 (amended): the PD of the result is the fallback formula rounded to six
\* decimals; the risk grade is that of the unrounded fallback PD.
C9_FallbackRounded ==
    (C9_NoScorer /\ Returned /\ GateViolations = <<>>) =>
        /\ response.is_eligible
        /\ response.ml_model_used = FALSE
        /\ response.components[13].rate = 0
        /\ response.pd_score % 10 = 0
        /\ Abs(response.pd_score - C9_FallbackPd) <= 5
        /\ C9_GradeOfFallbackPd
        /\ C9_ExampleResult

\* Credit score 679 without a scorer: the formula gives 0.0226875, the
\* result carries six decimals of it.
C9_Witness ==
    /\ C9_NoScorer /\ Returned
    /\ response.is_eligible
    /\ request.credit_score = 679
    /\ C9_FallbackPd = 226875
    /\ response.pd_score # 226875
    /\ response.risk_grade = 3

\* C10 (as stated): the final rate of every result the pipeline returns lies
\* in [0.025, 0.120], for eligible and ineligible applications alike.
C10_Original ==
    Returned =>
        /\ 25000000 <= response.final_rate
        /\ response.final_rate <= 120000000

\* C10 (amended): the final rate of every eligible result lies in
\* [0.025, 0.120]; an ineligible result carries the final rate 0.
C10_FinalRateByBranch ==
    Returned =>
        IF response.is_eligible
        THEN /\ 25000000 <= response.final_rate
             /\ response.final_rate <= 120000000
        ELSE response.final_rate = 0

\* An eligible result whose components sum below the floor, and so carries
\* the floor.
C10_Witness ==
    /\ Returned
    /\ response.is_eligible
    /\ SumRates(response.components) < 25000000
    /\ response.final_rate = 25000000

\* C11 (as stated): the base-rate override is read exactly once, at process
\* startup, and a malformed override fails at startup rather than during a
\* request: a process that completed startup holds a well-formed setting,
\* and no request fails.
C11_ReadOnceAtStartup ==
    /\ started => ~TaiwanMarketBenchmark(BASE_RATE).raised
    /\ response # None => ~response.raised

\* Startup completed under a malformed BASE_RATE, and an eligible request
\* then failed where it constructs the pricing layer.
C11_Witness ==
    /\ started
    /\ BASE_RATE = Malformed
    /\ response # None /\ response.raised
    /\ GateViolations = <<>>
    /\ calls = <<"check_rule_gate", "predict_pd_from_model", "RiskBasedPricingLayer">>

\* ------------------------------------------------------------------------
\* Calls of calculate_monthly_payment: direct ones, and those of POST /predict
\* ------------------------------------------------------------------------
PaymentLoans == {NTD(1), NTD(1000000), NTD(1200000)}
PaymentRates == {0, 60000000}
PaymentTenors == {1, 7, 36, 84}

\* A started process, its globals as load_model left them.
InitPayment ==
    /\ model_file \in {Absent,
                       Bundle([classifier |-> "by_score"], [scaler |-> "standard"],
                              [names |-> FEATURE_LIST])}
    /\ BASE_RATE \in {Unset, Override(LowBaseRate)}
    /\ started = TRUE
    /\ MODEL = load_model(model_file)[1]
    /\ SCALER = load_model(model_file)[2]
    /\ FEATURE_NAMES = load_model(model_file)[3]
    /\ NoRequest
    /\ args \in [loan_amount : PaymentLoans, annual_rate : PaymentRates,
                 tenor_months : PaymentTenors]
    /\ ret = None
    /\ prev = None

CallMonthlyPayment ==
    /\ ret = None
    /\ ret' = [monthly_payment |->
                  calculate_monthly_payment(args.loan_amount, args.annual_rate,
                                            args.tenor_months)]
    /\ UNCHANGED <<processVars, requestVars, args, prev>>

NextPayment ==
    \/ CallMonthlyPayment
    \/ \E application \in Applications : Predict(application, FALSE)

SpecPayment == InitPayment /\ [][NextPayment]_vars

\* The direct call at a zero rate returned loan_amount / tenor_months (to
\* the NT$ 0.01 the model keeps).
C12_ZeroRateQuotient ==
    (ret # None /\ args.annual_rate = 0) =>
        /\ args.tenor_months * ret.monthly_payment <= 50 * args.loan_amount
        /\ 50 * args.loan_amount < args.tenor_months * (ret.monthly_payment + 1)

C12_Eligible == Returned /\ response.is_eligible

\* C12 (as stated): calculate_monthly_payment returns loan_amount /
\* tenor_months at a zero rate, for any tenor >= 1; in every eligible result
\* total payment equals monthly payment times tenor, total interest equals
\* total payment minus the loan amount, and total interest is not negative.
C12_Original ==
    /\ C12_ZeroRateQuotient
    /\ C12_Eligible =>
         /\ response.total_payment =
               response.monthly_payment * request.tenor_months
         /\ 2 * response.total_interest =
               2 * response.total_payment - request.loan_amount_ntd
         /\ response.total_interest >= 0

\* C12 (amended): the three amounts of an eligible result are each rounded
\* to whole NT$ on their own: total payment is within (tenor + 1) / 2 of
\* monthly payment times tenor, total interest within NT$ 1 of total payment
\* minus the loan amount, and total interest is not negative.
C12_PaymentRounded ==
    /\ C12_ZeroRateQuotient
    /\ C12_Eligible =>
         /\ 2 * Abs(response.total_payment
                    - response.monthly_payment * request.tenor_months)
               <= request.tenor_months + 1
         /\ Abs(2 * response.total_interest
                - (2 * response.total_payment - request.loan_amount_ntd)) <= 2
         /\ response.total_interest >= 0

\* NT$ 1,200,000 over 7 months at a zero rate was computed directly, and an
\* eligible result carries a total payment that is not its monthly payment
\* times its tenor.
C12_Witness ==
    /\ ret # None
    /\ args = [loan_amount |-> NTD(1200000), annual_rate |-> 0, tenor_months |-> 7]
    /\ ret.monthly_payment = 17142857
    /\ C12_Eligible
    /\ response.total_interest > 0
    /\ response.total_payment # response.monthly_payment * request.tenor_months

\* ------------------------------------------------------------------------
\* The serving process on applications with amounts below NT$ 1
\* ------------------------------------------------------------------------
\* annual_revenue_ntd and loan_amount_ntd are floats validated by gt=0: an
\* amount of NT$ 0.5 passes validation.
HalfDollarRevenue ==
    [Example EXCEPT !.annual_revenue_ntd = 1, !.loan_amount_ntd = NTD(3),
                    !.collateral_value_ntd = NTD(3)]
HalfDollarLoan ==
    [Example EXCEPT !.loan_amount_ntd = 1, !.collateral_value_ntd = 1]

RatioApplications == Applications \cup {HalfDollarRevenue, HalfDollarLoan}

NextRatios ==
    \/ Startup
    \/ \E application \in RatioApplications : Predict(application, FALSE)

SpecRatios == Init /\ [][NextRatios]_vars

RatioApplicationsValidated == \A a \in RatioApplications : Validated(a)

\* The ratios of the latest request, as the quotients they are defined to be.
C13_TrueDbr == Div(request.loan_amount_ntd, request.annual_revenue_ntd)
C13_TrueCoverage == Div(request.collateral_value_ntd, request.loan_amount_ntd)

C13_TrueViolations ==
    C5_Violated([annual_revenue_ntd |-> request.annual_revenue_ntd,
                 credit_score |-> request.credit_score,
                 years_in_business |-> request.years_in_business,
                 dbr |-> C13_TrueDbr,
                 collateral_coverage |-> C13_TrueCoverage])

\* C13 (as stated): for every validated application the DBR given to the
\* rule gate and to pricing is loan amount / annual revenue and the
\* collateral coverage is collateral value / loan amount: the failure list
\* of a result is the one those ratios produce, and an eligible result
\* carries the DBR surcharge and the expected loss of those ratios.
C13_TrueRatios ==
    Returned =>
        /\ [i \in 1..Len(response.failed_rules) |->
               response.failed_rules[i].rule] = C13_TrueViolations
        /\ response.is_eligible <=> (C13_TrueViolations = <<>>)
        /\ response.is_eligible =>
             /\ response.components[3].rate = get_dbr_surcharge(C13_TrueDbr)
             /\ C9_NoScorer =>
                  response.components[4].rate =
                      C9_FallbackPd * (IF C13_TrueCoverage.n >= C13_TrueCoverage.d
                                       THEN 24
                                       ELSE 40 - (16 * C13_TrueCoverage.n)
                                                    \div C13_TrueCoverage.d)

\* Revenue NT$ 0.5 and loan NT$ 3: the DBR is 6, above the limit of 5, and
\* the result reports the revenue rule alone.
C13_Witness ==
    /\ Returned
    /\ request = HalfDollarRevenue
    /\ C13_TrueDbr = [n |-> 6, d |-> 1]
    /\ [i \in 1..Len(response.failed_rules) |-> response.failed_rules[i].rule]
          = <<"min_annual_revenue_1000000">>

\* ------------------------------------------------------------------------
\* predict_pd_from_model without a scorer, called for two credit scores
\* ------------------------------------------------------------------------
\* The features the handler builds, for a credit score.
FeaturesOf(credit_score) ==
    [name \in {FEATURE_LIST[i] : i \in 1..Len(FEATURE_LIST)} |->
        IF name = "credit_score" THEN credit_score ELSE 1]

\* The credit scores validation admits.
ValidScores == 300..850

InitFallback ==
    /\ NoRequest
    /\ BASE_RATE = Unset
    /\ model_file = Absent
    /\ started = TRUE
    /\ MODEL = None /\ SCALER = None /\ FEATURE_NAMES = None
    /\ args \in {FeaturesOf(cs) : cs \in ValidScores}
    /\ ret = None
    /\ prev = None

\* The same call again, for another credit score only.
CallPredictPdAgain(credit_score) ==
    /\ ret # None /\ prev = None
    /\ prev' = [args |-> args, ret |-> ret]
    /\ args' = [args EXCEPT !.credit_score = credit_score]
    /\ ret' = predict_pd_from_model(args', MODEL, SCALER, FEATURE_NAMES)
    /\ UNCHANGED <<processVars, requestVars>>

NextFallback ==
    \/ CallPredictPd
    \/ \E cs \in ValidScores : CallPredictPdAgain(cs)

SpecFallback == InitFallback /\ [][NextFallback]_vars

C14_Bounded ==
    ret # None => (10000 <= ret.pd_score /\ ret.pd_score <= 5000000)

\* C14 (as stated): the fallback PD is in [0.001, 0.5] for every credit
\* score in 300..850 and strictly decreasing: for scores a < b,
\* fallback_pd(a) > fallback_pd(b).
C14_Original ==
    /\ C14_Bounded
    /\ (prev # None /\ prev.args.credit_score < args.credit_score) =>
          prev.ret.pd_score > ret.pd_score

\* C14 (amended): the fallback PD is in [0.001, 0.5] and never increases
\* with the credit score; it decreases strictly up to a score of 795, and is
\* 0.001 for every score from 795 to 850.
C14_FallbackMonotone ==
    /\ C14_Bounded
    /\ (ret # None /\ args.credit_score >= 795) => ret.pd_score = 10000
    /\ (prev # None /\ prev.args.credit_score < args.credit_score) =>
          /\ prev.ret.pd_score >= ret.pd_score
          /\ prev.args.credit_score < 795 => prev.ret.pd_score > ret.pd_score

\* Scores 795 and 850 both got the floor of 0.001.
C14_Witness ==
    /\ prev # None
    /\ prev.args.credit_score = 795 /\ args.credit_score = 850
    /\ prev.ret.pd_score = 10000 /\ ret.pd_score = 10000
    /\ ~ret.used_model

\* The probability the classifier of MODEL returns for the features in args
\* (units of 1e-4); a feature the dict lacks enters the row as 0.
C15_Raw ==
    LET cs == IF "credit_score" \in DOMAIN args THEN args.credit_score ELSE 0
    IN  IF MODEL.classifier = "one" THEN 10000
        ELSE IF MODEL.classifier = "zero" THEN 0
        ELSE IF 850 - cs >= 500 THEN 10000
        ELSE (850 - cs) * 20

C15_Calibrated ==
    IF C15_Raw * 125 < 1000 THEN 1000
    ELSE IF C15_Raw * 125 > 9999000 THEN 9999000
    ELSE C15_Raw * 125

\* C15: the PD predict_pd_from_model returns is strictly between 0 and 1 on
\* every path: in [0.001, 0.5] on the formula path and in [0.0001, 0.9999]
\* on the scored path for any classifier probability in [0, 1], 0 and 1
\* included; on the scored path it is clamp(raw * 0.02 / 0.16, 0.0001,
\* 0.9999) and the adjustment is (that - fallback_pd) * 0.1.
C15_PdStrictlyInside ==
    ret # None =>
        /\ 0 < ret.pd_score /\ ret.pd_score < 10000000
        /\ ~ret.used_model =>
             (10000 <= ret.pd_score /\ ret.pd_score <= 5000000)
        /\ ret.used_model =>
             /\ 1000 <= ret.pd_score /\ ret.pd_score <= 9999000
             /\ ret.pd_score = C15_Calibrated
             /\ ret.ml_adjustment = (C15_Calibrated - C6_FallbackPd) * 10

\* A classifier that returned exactly 0: the PD is the floor 0.0001 and the
\* adjustment is negative.
C15_Witness ==
    /\ ret # None
    /\ ret.used_model
    /\ MODEL.classifier = "zero"
    /\ ret.pd_score = 1000
    /\ ret.ml_adjustment < 0

\* ------------------------------------------------------------------------
\* The serving process under every classifier, the most pessimistic included
\* ------------------------------------------------------------------------
ScoredModelFiles ==
    {Absent}
    \cup {Bundle([classifier |-> c], [scaler |-> "standard"],
                 [names |-> FEATURE_LIST]) : c \in Classifiers}

InitScored ==
    /\ model_file \in ScoredModelFiles
    /\ BASE_RATE \in {Unset, Override(LowBaseRate)}
    /\ started = FALSE
    /\ MODEL = None /\ SCALER = None /\ FEATURE_NAMES = None
    /\ NoRequest
    /\ args = None /\ ret = None /\ prev = None

NextScored ==
    \/ Startup
    \/ \E application \in Applications : Predict(application, FALSE)

SpecScored == InitScored /\ [][NextScored]_vars

\* C16: an eligible application is graded 1..6, never 7 or 8: without a
\* scorer the credit-score floor of 400 bounds the PD by 0.075 (grade <= 5),
\* with one the calibration bounds it by 0.125 (grade <= 6) whatever the
\* classifier returned; the decisions of grades 7 and 8 do not occur in an
\* eligible result, and a rejection only in a rule-gate-rejected one.
C16_EligibleGrades ==
    Returned =>
        /\ response.is_eligible =>
             /\ response.risk_grade \in 1..6
             /\ ~response.ml_model_used =>
                  (response.pd_score <= 750000 /\ response.risk_grade <= 5)
             /\ response.ml_model_used => response.pd_score <= 1250000
             /\ response.approval_decision \notin {"not_recommended", "reject"}
        /\ response.approval_decision = "reject" =>
             (~response.is_eligible /\ GateViolations # <<>>)

\* A classifier that returned exactly 1 for an eligible application: PD
\* 0.125, grade 6, sent to careful review.
C16_Witness ==
    /\ Returned
    /\ response.is_eligible
    /\ response.ml_model_used
    /\ MODEL.classifier = "one"
    /\ response.pd_score = 1250000
    /\ response.risk_grade = 6
    /\ response.approval_decision = "careful_review"

=============================================================================
